---- MODULE Spec2Model ----
(***************************************************************************)
(* The batched mutation scheduler `Element` (src/unnamed/part_002): one    *)
(* wrapped DOM element, a queue of pending mutations, and read()/write()   *)
(* phases run through requestAnimationFrame and promises.                  *)
(*                                                                         *)
(* JavaScript is single threaded.  A state of the model is a point where   *)
(* caller code may run: between tasks (stack empty) or inside a callback   *)
(* that read()/write() is executing (stack non-empty).  What a callback    *)
(* does is the caller's choice, so a callback is a frame on `stack` that   *)
(* may call any operation of the instance, return, or throw.               *)
(***************************************************************************)
EXTENDS Integers, Sequences, FiniteSets, TLC

VARIABLES
    element,    \* this.element: "el" when a DOM element is bound, NULL when not
    aria,       \* Toolkit.aria, the global ARIA switch
    target,     \* the DOM element's own state: classes, attributes, properties, style
    queue,      \* this.queue, with the insertion order of its own keys
    reading,    \* this.reading
    writing,    \* this.writing
    frames,     \* callbacks registered with requestAnimationFrame, oldest first
    calls,      \* one record per read()/write() call: what it returned, its promise
    stack,      \* caller callbacks being executed, innermost last
    hooks,      \* one-shot transition-end listeners registered by conceal()
    written,    \* history: per map, the raw value of the last setter call per key
    last        \* history: what the step just taken was; for a flush, what it found

vars == <<element, aria, target, queue, reading, writing, frames, calls, stack,
          hooks, written, last>>

-----------------------------------------------------------------------------
(* Bounds of the model. *)

\* read()/write() calls made over a run
MaxCalls == 3
\* transition-end listeners pending at once
MaxHooks == 1
\* write() calls made over a run of the queue specifications
MaxWrites == 2

-----------------------------------------------------------------------------
(* JavaScript values.  A value carries its type and its textual form, so    *)
(* that String(v) is a real conversion: true and "true" are different       *)
(* values with the same text.                                               *)

NULL == "null"
NONE == "undefined"

JsBool(b) == [t |-> "boolean", s |-> IF b THEN "true" ELSE "false"]
JsStr(s) == [t |-> "string", s |-> s]

\* String(value), src/unnamed/part_002:276
String(v) == [t |-> "string", s |-> v.s]

\* Plain objects used as maps: a function whose domain is the keys present.
EmptyMap == [k \in {} |-> NONE]
Put(m, k, v) == [x \in (DOMAIN m) \cup {k} |-> IF x = k THEN v ELSE m[x]]
Merge(m, n) == [x \in (DOMAIN m) \cup (DOMAIN n) |-> IF x \in DOMAIN n THEN n[x] ELSE m[x]]
Range(s) == {s[i] : i \in DOMAIN s}

-----------------------------------------------------------------------------
(* The mutation queue.  `order` is the enumeration order of the queue       *)
(* object's own keys, which for string keys is the order in which the keys  *)
(* were first assigned; assigning an existing key keeps its place.          *)

\* resetQueue() builds { attributes: {}, properties: {}, styles: {} }
ResetQueue ==
    [order |-> <<"attributes", "properties", "styles">>,
     addClass |-> NONE,
     removeClass |-> NONE,
     attributes |-> EmptyMap,
     properties |-> EmptyMap,
     styles |-> EmptyMap]

AssignKey(order, key) == IF key \in Range(order) THEN order ELSE Append(order, key)

\* addClass() that keeps a class already pending
QAddClassKeepsFirst(q, className) ==
    IF q.addClass # NONE THEN q
    ELSE [q EXCEPT !.addClass = className, !.order = AssignKey(@, "addClass")]

\* this.queue.addClass = className
QAddClass(q, className) ==
    [q EXCEPT !.addClass = className, !.order = AssignKey(@, "addClass")]

\* this.queue.removeClass = className
QRemoveClass(q, className) ==
    [q EXCEPT !.removeClass = className, !.order = AssignKey(@, "removeClass")]

\* Mutant of QSetAttribute: a key already pending keeps its first value.
QSetAttributeKeepsFirst(q, attribute, value) ==
    IF attribute \in DOMAIN q.attributes THEN q
    ELSE [q EXCEPT !.attributes = Put(@, attribute, String(value))]

\* this.queue.attributes[attribute] = String(value)
QSetAttribute(q, attribute, value) ==
    [q EXCEPT !.attributes = Put(@, attribute, String(value))]

\* this.queue.properties[property] = value
QSetProperty(q, property, value) ==
    [q EXCEPT !.properties = Put(@, property, value)]

\* this.queue.styles[property] = value
QSetStyle(q, property, value) ==
    [q EXCEPT !.styles = Put(@, property, value)]

\* forOwn(attributes, this.setAttribute.bind(this)): the keys are distinct, so
\* the result does not depend on the order of enumeration.
QSetAttributes(q, attributes) ==
    [q EXCEPT !.attributes = Merge(@, [k \in DOMAIN attributes |-> String(attributes[k])])]

QSetProperties(q, properties) ==
    [q EXCEPT !.properties = Merge(@, properties)]

QSetStyles(q, properties) ==
    [q EXCEPT !.styles = Merge(@, properties)]

\* setAria() testing Toolkit.aria only after the 'toggled' case
QSetAriaToggledUnchecked(q, on, key, value) ==
    IF key = "toggled"
    THEN QSetAttribute(QSetAttribute(q, "aria-expanded", value), "aria-selected", value)
    ELSE IF ~on THEN q
         ELSE QSetAttribute(q, "aria-" \o key, value)

\* setAria(key, value) with Toolkit.aria = on
QSetAria(q, on, key, value) ==
    IF ~on THEN q
    ELSE IF key = "toggled"
         THEN QSetAttribute(QSetAttribute(q, "aria-expanded", value), "aria-selected", value)
         ELSE QSetAttribute(q, "aria-" \o key, value)

RECURSIVE QSetArias(_, _, _, _)
\* forOwn(keys, this.setAria.bind(this)); `todo` is the set of keys still to visit
QSetArias(q, on, keys, todo) ==
    IF todo = {} THEN q
    ELSE LET k == CHOOSE x \in todo : TRUE
         IN  QSetArias(QSetAria(q, on, k, keys[k]), on, keys, todo \ {k})

-----------------------------------------------------------------------------
(* The DOM element.  Classes, attributes, properties and styles are kept   *)
(* apart: the keys used are ones the DOM does not alias to one another.    *)

EmptyTarget ==
    [classes |-> {}, attributes |-> EmptyMap, properties |-> EmptyMap, style |-> EmptyMap]

\* One case of the switch in processQueue, applied to element state t; the
\* log records which mutators were called on the element, in order.
ApplyMutation(st, q, key) ==
    CASE key = "addClass" ->
           [t |-> [st.t EXCEPT !.classes = @ \cup {q.addClass}],
            log |-> Append(st.log, "addClass")]
      [] key = "removeClass" ->
           [t |-> [st.t EXCEPT !.classes = @ \ {q.removeClass}],
            log |-> Append(st.log, "removeClass")]
      [] key = "attributes" ->
           [t |-> [st.t EXCEPT !.attributes = Merge(@, q.attributes)],
            log |-> IF DOMAIN q.attributes = {} THEN st.log ELSE Append(st.log, "attributes")]
      [] key = "properties" ->
           [t |-> [st.t EXCEPT !.properties = Merge(@, q.properties)],
            log |-> IF DOMAIN q.properties = {} THEN st.log ELSE Append(st.log, "properties")]
      [] key = "styles" ->
           [t |-> [st.t EXCEPT !.style = Merge(@, q.styles)],
            log |-> IF DOMAIN q.styles = {} THEN st.log ELSE Append(st.log, "styles")]
      [] OTHER -> st

RECURSIVE ForOwnQueue(_, _, _)
\* forOwn(queue, (key, value) => { switch (key) ... }) from the i-th own key on
ForOwnQueue(st, q, i) ==
    IF i > Len(q.order) THEN st
    ELSE ForOwnQueue(ApplyMutation(st, q, q.order[i]), q, i + 1)

\* Mutant of ProcessQueue: the reset leaves the pending styles in the queue.
ProcessQueueKeepsStyles(t, q) ==
    LET done == ForOwnQueue([t |-> t, log |-> <<>>], q, 1)
    IN  [t |-> done.t, log |-> done.log, queue |-> [ResetQueue EXCEPT !.styles = q.styles]]

\* processQueue() on a bound element: the element afterwards, the mutator log,
\* and the queue afterwards (this.resetQueue())
ProcessQueue(t, q) ==
    LET done == ForOwnQueue([t |-> t, log |-> <<>>], q, 1)
    IN  [t |-> done.t, log |-> done.log, queue |-> ResetQueue]

\* hasClass(className): this.element.classList.contains(className)
HasClassOf(t, className) == className \in t.classes

-----------------------------------------------------------------------------
(* Inputs the callers draw from. *)

Classes == {"show", "hide"}
AttrKeys == {"aria-hidden"}
PropKeys == {"checked"}
StyleKeys == {"display"}
Booleans == {JsBool(TRUE), JsBool(FALSE)}

\* Objects passed to the plural setters: any subset of the keys, any values.
MapsOver(keys, values) == UNION {[ks -> values] : ks \in SUBSET keys}

-----------------------------------------------------------------------------
(* History of the setter calls since the last flush: the value each call    *)
(* was given, before any conversion.                                        *)

\* `last` after the constructor, and after any step that is not a flush
Constructed == [op |-> "constructor"]
Other == [op |-> "other"]

\* `over` names the keys a later call gave a different value than an earlier one.
\* `classes` holds the last addClass / removeClass argument, under those
\* names; `ignored` the keys given to setAria while Toolkit.aria was false.
NothingWritten ==
    [attributes |-> EmptyMap, properties |-> EmptyMap, styles |-> EmptyMap,
     classes |-> EmptyMap, over |-> {}, ignored |-> {}]

WSet(w, map, k, v) ==
    [w EXCEPT ![map] = Put(@, k, v),
              !.over = IF k \in DOMAIN w[map] /\ w[map][k] # v THEN @ \cup {<<map, k>>} ELSE @]
WSetAll(w, map, m) ==
    [w EXCEPT ![map] = Merge(@, m),
              !.over = @ \cup {<<map, k>> : k \in {x \in (DOMAIN m) \cap (DOMAIN w[map]) : w[map][x] # m[x]}}]
WAttribute(w, k, v) == WSet(w, "attributes", k, v)
WProperty(w, k, v) == WSet(w, "properties", k, v)
WStyle(w, k, v) == WSet(w, "styles", k, v)
WAddClass(w, c) == WSet(w, "classes", "addClass", c)
WRemoveClass(w, c) == WSet(w, "classes", "removeClass", c)
WAria(w, on, key, value) ==
    IF ~on THEN [w EXCEPT !.ignored = @ \cup {key}]
    ELSE IF key = "toggled"
         THEN WAttribute(WAttribute(w, "aria-expanded", value), "aria-selected", value)
         ELSE WAttribute(w, "aria-" \o key, value)

RECURSIVE WArias(_, _, _, _)
WArias(w, on, keys, todo) ==
    IF todo = {} THEN w
    ELSE LET k == CHOOSE x \in todo : TRUE
         IN  WArias(WAria(w, on, k, keys[k]), on, keys, todo \ {k})

-----------------------------------------------------------------------------
(* Construction. *)

\* constructor(element): this.element = element; this.resetQueue();
\* reading = false; writing = false.  The element given may be missing, and
\* may already carry classes; Toolkit.aria is a global the page may have set.
Construct(elements, arias, classSets) ==
    /\ element \in elements
    /\ aria \in arias
    /\ target \in {[EmptyTarget EXCEPT !.classes = cs] : cs \in classSets}
    /\ (element = NULL => target = EmptyTarget)
    /\ queue = ResetQueue
    /\ reading = FALSE
    /\ writing = FALSE
    /\ frames = <<>>
    /\ calls = <<>>
    /\ stack = <<>>
    /\ hooks = 0
    /\ written = NothingWritten
    /\ last = Constructed

-----------------------------------------------------------------------------
(* The synchronous setters and queries.  Each may be called between tasks   *)
(* or from inside a callback; none of them looks at the stack.              *)

\* What every setter leaves alone.
SetterFrame == UNCHANGED <<element, aria, target, reading, writing, frames, calls, stack, hooks>>

\* Mutant of AddClass: the class is also put on the element at once.
AddClassNow(className) ==
    /\ queue' = QAddClass(queue, className)
    /\ target' = IF element = NULL THEN target
                 ELSE [target EXCEPT !.classes = @ \cup {className}]
    /\ written' = WAddClass(written, className)
    /\ last' = Other
    /\ UNCHANGED <<element, aria, reading, writing, frames, calls, stack, hooks>>

AddClass(className) ==
    /\ queue' = QAddClass(queue, className)
    /\ written' = WAddClass(written, className)
    /\ last' = Other
    /\ SetterFrame

RemoveClass(className) ==
    /\ queue' = QRemoveClass(queue, className)
    /\ written' = WRemoveClass(written, className)
    /\ last' = Other
    /\ SetterFrame

SetAttribute(attribute, value) ==
    /\ queue' = QSetAttribute(queue, attribute, value)
    /\ written' = WAttribute(written, attribute, value)
    /\ last' = Other
    /\ SetterFrame

SetAttributes(attributes) ==
    /\ queue' = QSetAttributes(queue, attributes)
    /\ written' = WSetAll(written, "attributes", attributes)
    /\ last' = Other
    /\ SetterFrame

SetProperty(property, value) ==
    /\ queue' = QSetProperty(queue, property, value)
    /\ written' = WProperty(written, property, value)
    /\ last' = Other
    /\ SetterFrame

SetProperties(properties) ==
    /\ queue' = QSetProperties(queue, properties)
    /\ written' = WSetAll(written, "properties", properties)
    /\ last' = Other
    /\ SetterFrame

SetStyle(property, value) ==
    /\ queue' = QSetStyle(queue, property, value)
    /\ written' = WStyle(written, property, value)
    /\ last' = Other
    /\ SetterFrame

SetStyles(properties) ==
    /\ queue' = QSetStyles(queue, properties)
    /\ written' = WSetAll(written, "styles", properties)
    /\ last' = Other
    /\ SetterFrame

SetAria(key, value) ==
    /\ queue' = QSetAria(queue, aria, key, value)
    /\ written' = WAria(written, aria, key, value)
    /\ last' = Other
    /\ SetterFrame

SetArias(keys) ==
    /\ queue' = QSetArias(queue, aria, keys, DOMAIN keys)
    /\ written' = WArias(written, aria, keys, DOMAIN keys)
    /\ last' = Other
    /\ SetterFrame

\* transitionEnd(element, func): registers func as a one-shot listener for the
\* end of the element's transition.
TransitionEndRegister(n) == n + 1

\* conceal() with the three queueing calls inside the `if` that registers the
\* listener
ConcealWhenShown(dontHide) ==
    IF element = NULL
    THEN /\ last' = Other
         /\ UNCHANGED <<element, aria, target, queue, reading, writing, frames, calls,
                        stack, hooks, written>>
    ELSE LET register == HasClassOf(target, "show") /\ ~dontHide
         IN  /\ register => hooks < MaxHooks
             /\ hooks' = IF register THEN TransitionEndRegister(hooks) ELSE hooks
             /\ queue' = IF register
                         THEN QSetAria(QAddClass(QRemoveClass(queue, "show"), "hide"),
                                       aria, "hidden", JsBool(TRUE))
                         ELSE queue
             /\ written' = WAria(WAddClass(WRemoveClass(written, "show"), "hide"),
                                  aria, "hidden", JsBool(TRUE))
             /\ last' = Other
             /\ UNCHANGED <<element, aria, target, reading, writing, frames, calls, stack>>

\* conceal(dontHide)
Conceal(dontHide) ==
    IF element = NULL
    THEN /\ last' = Other
         /\ UNCHANGED <<element, aria, target, queue, reading, writing, frames, calls,
                        stack, hooks, written>>
    ELSE LET register == HasClassOf(target, "show") /\ ~dontHide
         IN  /\ register => hooks < MaxHooks
             /\ hooks' = IF register THEN TransitionEndRegister(hooks) ELSE hooks
             /\ queue' = QSetAria(QAddClass(QRemoveClass(queue, "show"), "hide"),
                                  aria, "hidden", JsBool(TRUE))
             /\ written' = WAria(WAddClass(WRemoveClass(written, "show"), "hide"),
                                  aria, "hidden", JsBool(TRUE))
             /\ last' = Other
             /\ UNCHANGED <<element, aria, target, reading, writing, frames, calls, stack>>

\* reveal() without its removeClass('hide')
RevealKeepsHide(dontShow) ==
    LET q0 == IF dontShow THEN queue ELSE QSetStyle(queue, "display", JsStr(""))
        w0 == IF dontShow THEN written ELSE WStyle(written, "display", JsStr(""))
    IN  /\ queue' = QSetAria(QAddClass(q0, "show"), aria, "hidden", JsBool(FALSE))
        /\ written' = WAria(WAddClass(WRemoveClass(w0, "hide"), "show"),
                             aria, "hidden", JsBool(FALSE))
        /\ last' = Other
        /\ SetterFrame

\* reveal(dontShow)
Reveal(dontShow) ==
    LET q0 == IF dontShow THEN queue ELSE QSetStyle(queue, "display", JsStr(""))
        w0 == IF dontShow THEN written ELSE WStyle(written, "display", JsStr(""))
    IN  /\ queue' = QSetAria(QAddClass(QRemoveClass(q0, "hide"), "show"),
                             aria, "hidden", JsBool(FALSE))
        /\ written' = WAria(WAddClass(WRemoveClass(w0, "hide"), "show"),
                             aria, "hidden", JsBool(FALSE))
        /\ last' = Other
        /\ SetterFrame

\* The listener conceal() registered: () => this.element.style.display = 'none'.
\* The transition of the element ends, between tasks; every listener waiting
\* for it runs once and is gone.
TransitionEnd ==
    /\ stack = <<>>
    /\ hooks > 0
    /\ target' = [target EXCEPT !.style = Put(@, "display", JsStr("none"))]
    /\ hooks' = 0
    /\ last' = [op |-> "transitionEnd"]
    /\ UNCHANGED <<element, aria, queue, reading, writing, frames, calls, stack, written>>

-----------------------------------------------------------------------------
(* read() and write().  A call is recorded with what it returned (`ret`):   *)
(* "null", "promise", "raised" when an exception left the call, "running"   *)
(* while write() is still inside its callback; with the state of the        *)
(* promise it made (`fut`, `val`); and with how often its callback was      *)
(* invoked.                                                                 *)

InReadCallback == \E i \in DOMAIN stack : stack[i].kind = "read"
InWriteCallback == \E i \in DOMAIN stack : stack[i].kind = "write"

\* History kept with each call: `reg` numbers the requestAnimationFrame
\* registrations in the order they were made, `ran` the frame callbacks in the
\* order they were run; 0 stands for "not yet".
NextReg == Cardinality({c \in DOMAIN calls : calls[c].reg > 0}) + 1
TicksRun == Cardinality({c \in DOMAIN calls : calls[c].ran > 0})

\* The call whose callback is executing, 0 outside any callback.
Executing == IF stack = <<>> THEN 0 ELSE stack[Len(stack)].call

\* A call of read or write: what it returned (`ret`), the promise returned
\* (`fut`, `val`), how often its callback was entered, whether the callback
\* raised, where the call was made (`within`, `inRead`, `inWrite`), the
\* reaction chained onto its promise (`then`) and the call that reaction made
\* this one from (`chainOf`, 0 for a call of the page).  For the read that
\* promise.read makes, `flushed` is the element as the flush of the write left
\* it and `seen` the element as the callback of the read finds it.  For
\* every read that was run, `entry` tells whether its callback, when it was
\* entered, found nothing queued and a flush as the next frame callback.
NewCall(kind, ret, fut, invoked) ==
    [kind |-> kind, ret |-> ret, fut |-> fut, val |-> NONE, invoked |-> invoked,
     raised |-> FALSE, inRead |-> InReadCallback, inWrite |-> InWriteCallback,
     within |-> Executing, reg |-> IF fut = "pending" THEN NextReg ELSE 0,
     ran |-> 0, then |-> "none", chainOf |-> 0, flushed |-> NONE, seen |-> NONE,
     entry |-> FALSE]

\* promise.then(() => ...) reactions waiting for their promise, and those
\* whose promise has resolved: the latter run as microtasks, before the next
\* frame callback.
Reactions == {"write", "read"}
ThenWaiting(cs) == {c \in DOMAIN cs : cs[c].then \in Reactions /\ cs[c].fut # "rejected"}
\* The reaction given to then() as both handlers: it runs when the promise
\* rejects too
ThenDueOnceSettled(cs) ==
    {c \in DOMAIN cs : cs[c].then \in Reactions /\ cs[c].fut \in {"resolved", "rejected"}}

\* The reaction run without waiting for the promise to resolve
ThenDueWhilePending(cs) ==
    {c \in DOMAIN cs : cs[c].then \in Reactions /\ cs[c].fut \in {"pending", "resolved"}}

ThenDue(cs) == {c \in DOMAIN cs : cs[c].then \in Reactions /\ cs[c].fut = "resolved"}

\* Room for one more call, counting the calls the waiting reactions will make.
Room == Len(calls) + Cardinality(ThenWaiting(calls)) < MaxCalls

\* resolve(this) / reject(this): a promise settles once
Settle(cs, c, how, value) ==
    IF cs[c].fut = "pending" THEN [cs EXCEPT ![c].fut = how, ![c].val = value] ELSE cs

\* requestAnimationFrame(callback)
RequestAnimationFrame(fs, kind, c) == Append(fs, [kind |-> kind, call |-> c])

Registered(c) == \E i \in DOMAIN frames : frames[i].call = c

\* Mutant of Read: no guard against a read in progress.
ReadUnguarded ==
    /\ Len(calls) < MaxCalls
    /\ LET c == Len(calls) + 1
       IN  /\ calls' = Append(calls, NewCall("read", "promise", "pending", 0))
           /\ frames' = RequestAnimationFrame(frames, "read", c)
           /\ last' = Other
    /\ UNCHANGED <<element, aria, target, queue, reading, writing, stack, hooks, written>>

\* read() that registers no frame callback while one of an earlier read is
\* still waiting
ReadCoalesced ==
    /\ Room
    /\ LET c == Len(calls) + 1
       IN  /\ IF reading
              THEN /\ calls' = Append(calls, NewCall("read", "null", "none", 0))
                   /\ frames' = frames
              ELSE /\ calls' = Append(calls, NewCall("read", "promise", "pending", 0))
                   /\ frames' = IF \E i \in DOMAIN frames : frames[i].kind = "read"
                                THEN frames
                                ELSE RequestAnimationFrame(frames, "read", c)
           /\ last' = Other
    /\ UNCHANGED <<element, aria, target, queue, reading, writing, stack, hooks, written>>

\* read(func)
Read ==
    /\ Room
    /\ LET c == Len(calls) + 1
       IN  /\ IF reading
              THEN /\ calls' = Append(calls, NewCall("read", "null", "none", 0))
                   /\ frames' = frames
              ELSE /\ calls' = Append(calls, NewCall("read", "promise", "pending", 0))
                   /\ frames' = RequestAnimationFrame(frames, "read", c)
           /\ last' = Other
    /\ UNCHANGED <<element, aria, target, queue, reading, writing, stack, hooks, written>>

\* read(reader) as the reaction of promise.read makes it: `cs` is the calls so
\* far and `chain` the write whose promise.read it is
ReadOn(cs, chain) ==
    /\ Len(cs) < MaxCalls
    /\ LET c == Len(cs) + 1
           new(ret, fut) == [NewCall("read", ret, fut, 0) EXCEPT !.chainOf = chain,
                                                                 !.flushed = target]
       IN  /\ IF reading
              THEN /\ calls' = Append(cs, new("null", "none"))
                   /\ frames' = frames
              ELSE /\ calls' = Append(cs, new("promise", "pending"))
                   /\ frames' = RequestAnimationFrame(frames, "read", c)
           /\ last' = Other
    /\ UNCHANGED <<element, aria, target, queue, reading, writing, stack, hooks, written>>

\* write() without its guard against a write in progress
WriteOnUnguarded(cs, hasFunc, chain) ==
    /\ Len(cs) < MaxCalls
    /\ LET c == Len(cs) + 1
           new(ret, fut, invoked) == [NewCall("write", ret, fut, invoked) EXCEPT !.chainOf = chain]
       IN  /\ IF hasFunc
              THEN /\ writing' = TRUE
                   /\ stack' = Append(stack, [kind |-> "write", call |-> c])
                   /\ calls' = Append(cs, new("running", "none", 1))
                   /\ frames' = frames
              ELSE /\ calls' = Append(cs, new("promise", "pending", 0))
                   /\ frames' = RequestAnimationFrame(frames, "flush", c)
                   /\ UNCHANGED <<writing, stack>>
           /\ last' = Other
    /\ UNCHANGED <<element, aria, target, queue, reading, hooks, written>>

\* write(func), up to the point where func has been entered (hasFunc) or the
\* flush has been registered (no func); `cs` is the calls so far and `chain`
\* the read whose promise.write made this call, 0 for a call of the page
WriteOn(cs, hasFunc, chain) ==
    /\ Len(cs) < MaxCalls
    /\ LET c == Len(cs) + 1
           new(ret, fut, invoked) == [NewCall("write", ret, fut, invoked) EXCEPT !.chainOf = chain]
       IN  /\ IF writing
              THEN /\ calls' = Append(cs, new("null", "none", 0))
                   /\ UNCHANGED <<frames, writing, stack>>
              ELSE IF hasFunc
              THEN /\ writing' = TRUE
                   /\ stack' = Append(stack, [kind |-> "write", call |-> c])
                   /\ calls' = Append(cs, new("running", "none", 1))
                   /\ frames' = frames
              ELSE /\ calls' = Append(cs, new("promise", "pending", 0))
                   /\ frames' = RequestAnimationFrame(frames, "flush", c)
                   /\ UNCHANGED <<writing, stack>>
           /\ last' = Other
    /\ UNCHANGED <<element, aria, target, queue, reading, hooks, written>>

\* write(func) called by the page or by a callback
Write(hasFunc) ==
    /\ Room
    /\ WriteOn(calls, hasFunc, 0)

\* promise.write(writer) on the promise read() returned:
\* promise.then(() => this.write(writer)).  One reaction per promise.
ChainWrite ==
    /\ Room
    /\ \E c \in DOMAIN calls :
          /\ calls[c].kind = "read"
          /\ calls[c].ret = "promise"
          /\ calls[c].then = "none"
          /\ calls' = [calls EXCEPT ![c].then = "write"]
    /\ last' = Other
    /\ UNCHANGED <<element, aria, target, queue, reading, writing, frames, stack, hooks,
                   written>>

\* promise.read(reader) on the promise write() returned:
\* promise.then(() => this.read(reader)).  One reaction per promise.
ChainRead ==
    /\ Room
    /\ \E c \in DOMAIN calls :
          /\ calls[c].kind = "write"
          /\ calls[c].ret = "promise"
          /\ calls[c].then = "none"
          /\ calls' = [calls EXCEPT ![c].then = "read"]
    /\ last' = Other
    /\ UNCHANGED <<element, aria, target, queue, reading, writing, frames, stack, hooks,
                   written>>

\* The reaction of promise.write or promise.read runs, as a microtask, once
\* the promise has resolved: () => this.write(writer), () => this.read(reader).
\* A rejected promise never runs it.
RunThen ==
    /\ stack = <<>>
    /\ \E c \in ThenDue(calls) :
          IF calls[c].then = "write"
          THEN WriteOn([calls EXCEPT ![c].then = "ran"], TRUE, c)
          ELSE ReadOn([calls EXCEPT ![c].then = "ran"], c)

\* The frame callback of read(): this.reading = true; func.call(this, this.element)
TickRead ==
    /\ stack = <<>>
    /\ ThenDue(calls) = {}
    /\ frames # <<>>
    /\ Head(frames).kind = "read"
    /\ LET c == Head(frames).call
       IN  /\ reading' = TRUE
           /\ stack' = <<[kind |-> "read", call |-> c]>>
           /\ calls' = [calls EXCEPT ![c].invoked = @ + 1, ![c].ran = TicksRun + 1,
                                      ![c].seen = IF calls[c].chainOf # 0 THEN target ELSE @,
                                      ![c].entry = /\ queue = ResetQueue
                                                   /\ Len(frames) > 1
                                                   /\ frames[2].kind = "flush"]
           /\ last' = Other
    /\ frames' = Tail(frames)
    /\ UNCHANGED <<element, aria, target, queue, writing, hooks, written>>

\* The frame callback of write() with resetQueue() run whether or not
\* processQueue raised
TickFlushResetsQueue ==
    /\ stack = <<>>
    /\ ThenDue(calls) = {}
    /\ frames # <<>>
    /\ Head(frames).kind = "flush"
    /\ LET c == Head(frames).call
       IN  IF element = NULL
           THEN /\ calls' = [Settle(calls, c, "rejected", "instance") EXCEPT ![c].ran = TicksRun + 1]
                /\ last' = [op |-> "flush", call |-> c, ok |-> FALSE]
                /\ queue' = ResetQueue
                /\ UNCHANGED <<target, written>>
           ELSE LET done == ProcessQueue(target, queue)
                IN  /\ target' = done.t
                    /\ queue' = done.queue
                    /\ calls' = [Settle(calls, c, "resolved", "instance") EXCEPT ![c].ran = TicksRun + 1]
                    /\ written' = NothingWritten
                    /\ last' = [op |-> "flush", call |-> c, ok |-> TRUE, log |-> done.log,
                                queued |-> queue, written |-> written]
    /\ frames' = Tail(frames)
    /\ UNCHANGED <<element, aria, reading, writing, stack, hooks>>

\* The frame callback of write() leaving the queue to the last flush
\* registered: while another flush is waiting it applies nothing
TickFlushDebounced ==
    /\ stack = <<>>
    /\ ThenDue(calls) = {}
    /\ frames # <<>>
    /\ Head(frames).kind = "flush"
    /\ LET c == Head(frames).call
           later == \E i \in 2..Len(frames) : frames[i].kind = "flush"
       IN  IF element = NULL
           THEN /\ calls' = [Settle(calls, c, "rejected", "instance") EXCEPT ![c].ran = TicksRun + 1]
                /\ last' = [op |-> "flush", call |-> c, ok |-> FALSE]
                /\ UNCHANGED <<target, queue, written>>
           ELSE LET done == IF later THEN [t |-> target, log |-> <<>>, queue |-> queue]
                                     ELSE ProcessQueue(target, queue)
                IN  /\ target' = done.t
                    /\ queue' = done.queue
                    /\ calls' = [Settle(calls, c, "resolved", "instance") EXCEPT ![c].ran = TicksRun + 1]
                    /\ written' = IF later THEN written ELSE NothingWritten
                    /\ last' = [op |-> "flush", call |-> c, ok |-> TRUE, log |-> done.log,
                                queued |-> queue, written |-> written]
    /\ frames' = Tail(frames)
    /\ UNCHANGED <<element, aria, reading, writing, stack, hooks>>

\* The frame callback of write(): try { this.processQueue(); resolve(this) }
\* catch (e) { reject(this) }
TickFlush ==
    /\ stack = <<>>
    /\ ThenDue(calls) = {}
    /\ frames # <<>>
    /\ Head(frames).kind = "flush"
    /\ LET c == Head(frames).call
       IN  IF element = NULL
           THEN /\ calls' = [Settle(calls, c, "rejected", "instance") EXCEPT ![c].ran = TicksRun + 1]
                /\ last' = [op |-> "flush", call |-> c, ok |-> FALSE]
                /\ UNCHANGED <<target, queue, written>>
           ELSE LET done == ProcessQueue(target, queue)
                IN  /\ target' = done.t
                    /\ queue' = done.queue
                    /\ calls' = [Settle(calls, c, "resolved", "instance") EXCEPT ![c].ran = TicksRun + 1]
                    /\ written' = NothingWritten
                    /\ last' = [op |-> "flush", call |-> c, ok |-> TRUE, log |-> done.log,
                                queued |-> queue, written |-> written]
    /\ frames' = Tail(frames)
    /\ UNCHANGED <<element, aria, reading, writing, stack, hooks>>

\* The callback being executed returns normally.
\*   read:  this.reading = false; resolve(this)
\*   write: this.writing = false; then the flush is registered and the promise returned
Return ==
    /\ stack # <<>>
    /\ LET top == stack[Len(stack)]
           c == top.call
       IN  /\ IF top.kind = "read"
              THEN /\ reading' = FALSE
                   /\ calls' = Settle(calls, c, "resolved", "instance")
                   /\ UNCHANGED <<writing, frames>>
              ELSE /\ writing' = FALSE
                   /\ calls' = [calls EXCEPT ![c].ret = "promise", ![c].fut = "pending",
                                              ![c].reg = NextReg]
                   /\ frames' = RequestAnimationFrame(frames, "flush", c)
                   /\ UNCHANGED reading
           /\ last' = Other
    /\ stack' = SubSeq(stack, 1, Len(stack) - 1)
    /\ UNCHANGED <<element, aria, target, queue, hooks, written>>

\* Mutant of Throw: the catch clause of read rejects with the error caught.
ThrowRejectsWithError ==
    /\ stack # <<>>
    /\ LET top == stack[Len(stack)]
           c == top.call
       IN  /\ IF top.kind = "read"
              THEN calls' = [Settle(calls, c, "rejected", "error") EXCEPT ![c].raised = TRUE]
              ELSE calls' = [calls EXCEPT ![c].ret = "raised", ![c].raised = TRUE]
           /\ last' = Other
    /\ stack' = SubSeq(stack, 1, Len(stack) - 1)
    /\ UNCHANGED <<element, aria, target, queue, reading, writing, frames, hooks, written>>

\* read() without its catch clause: an error of the callback settles nothing
ThrowUncaught ==
    /\ stack # <<>>
    /\ LET top == stack[Len(stack)]
           c == top.call
       IN  /\ IF top.kind = "read"
              THEN calls' = [calls EXCEPT ![c].raised = TRUE]
              ELSE calls' = [calls EXCEPT ![c].ret = "raised", ![c].raised = TRUE]
           /\ last' = Other
    /\ stack' = SubSeq(stack, 1, Len(stack) - 1)
    /\ UNCHANGED <<element, aria, target, queue, reading, writing, frames, hooks, written>>

\* The callback being executed throws.
\*   read:  the catch clause runs reject(this); nothing resets this.reading
\*   write: nothing catches; the exception leaves write() before this.writing
\*          is reset, before any flush is registered or any promise made
Throw ==
    /\ stack # <<>>
    /\ LET top == stack[Len(stack)]
           c == top.call
       IN  /\ IF top.kind = "read"
              THEN calls' = [Settle(calls, c, "rejected", "instance") EXCEPT ![c].raised = TRUE]
              ELSE calls' = [calls EXCEPT ![c].ret = "raised", ![c].raised = TRUE]
           /\ last' = Other
    /\ stack' = SubSeq(stack, 1, Len(stack) - 1)
    /\ UNCHANGED <<element, aria, target, queue, reading, writing, frames, hooks, written>>

-----------------------------------------------------------------------------
(* The scheduler: read(), write(), their callbacks and the frame ticks,     *)
(* with class mutations queued so that the flushes have something to do.    *)

SchedClasses == {"show"}

Next ==
    \/ Read
    \/ \E hasFunc \in BOOLEAN : Write(hasFunc)
    \/ ChainWrite
    \/ ChainRead
    \/ RunThen
    \/ TickRead
    \/ TickFlush
    \/ Return
    \/ Throw
    \/ \E c \in SchedClasses : AddClass(c)
    \/ \E c \in SchedClasses : RemoveClass(c)

\* Toolkit.aria is true unless the page changes it (src/unnamed/part_002:405).
Init == Construct({"el", NULL}, {TRUE}, {{}})

Spec == Init /\ [][Next]_vars

(* The mutation queue: every setter, write() without a callback, the flush *)
(* and the transition-end listener.  Both values of an attribute; one     *)
(* value for the property and the style; addClass and removeClass are       *)
(* called with "show", conceal and reveal queue "hide" as well.             *)

NextQueue ==
    \/ \E c \in SchedClasses : AddClass(c)
    \/ \E c \in SchedClasses : RemoveClass(c)
    \/ \E k \in AttrKeys, v \in Booleans : SetAttribute(k, v)
    \/ \E m \in MapsOver(AttrKeys, Booleans) : SetAttributes(m)
    \/ \E k \in PropKeys : SetProperty(k, JsBool(TRUE))
    \/ \E m \in MapsOver(PropKeys, {JsBool(TRUE)}) : SetProperties(m)
    \/ \E k \in StyleKeys : SetStyle(k, JsStr(""))
    \/ \E m \in MapsOver(StyleKeys, {JsStr("")}) : SetStyles(m)
    \/ \E v \in Booleans : SetAria("hidden", v)
    \/ \E m \in MapsOver({"hidden"}, Booleans) : SetArias(m)
    \/ \E b \in BOOLEAN : Conceal(b)
    \/ \E b \in BOOLEAN : Reveal(b)
    \/ TransitionEnd
    \/ (Len(calls) < MaxWrites /\ Write(FALSE))
    \/ TickFlush

InitQueue == Construct({"el", NULL}, {TRUE}, {{}})

SpecQueue == InitQueue /\ [][NextQueue]_vars

(* The three maps of the queue: repeated keys with different values, and    *)
(* values that are not strings.                                             *)

NextMaps ==
    \/ \E k \in AttrKeys, v \in Booleans \cup {JsStr("true")} : SetAttribute(k, v)
    \/ \E m \in MapsOver(AttrKeys, Booleans) : SetAttributes(m)
    \/ \E k \in PropKeys, v \in Booleans \cup {JsStr("true")} : SetProperty(k, v)
    \/ \E m \in MapsOver(PropKeys, Booleans) : SetProperties(m)
    \/ \E k \in StyleKeys, v \in {JsStr(""), JsStr("block")} : SetStyle(k, v)
    \/ \E m \in MapsOver(StyleKeys, {JsStr(""), JsStr("block")}) : SetStyles(m)
    \/ (Len(calls) < MaxWrites /\ Write(FALSE))
    \/ TickFlush

SpecMaps == Init /\ [][NextMaps]_vars

(* conceal, reveal and the aria setters, with Toolkit.aria true or false,   *)
(* on a target that starts bare or hidden.                                  *)

AriaKeys == {"hidden", "toggled"}

NextAria ==
    \/ \E c \in Classes : AddClass(c)
    \/ \E k \in AriaKeys : SetAria(k, JsBool(TRUE))
    \/ \E m \in MapsOver(AriaKeys, {JsBool(TRUE)}) : SetArias(m)
    \/ \E b \in BOOLEAN : Conceal(b)
    \/ \E b \in BOOLEAN : Reveal(b)
    \/ TransitionEnd
    \/ (Len(calls) < MaxWrites /\ Write(FALSE))
    \/ TickFlush

InitAria == Construct({"el"}, BOOLEAN, {{}, {"hide"}})

SpecAria == InitAria /\ [][NextAria]_vars

(* The two class slots of the queue alone. *)

NextClasses ==
    \/ \E c \in Classes : AddClass(c)
    \/ \E c \in Classes : RemoveClass(c)
    \/ (Len(calls) < MaxWrites /\ Write(FALSE))
    \/ TickFlush

InitClasses == Construct({"el", NULL}, {TRUE}, {{}, {"show"}, {"show", "hide"}})

SpecClasses == InitClasses /\ [][NextClasses]_vars

-----------------------------------------------------------------------------
(* Properties of the scheduler, checked under Spec.                         *)

NoCallbackRunning == stack = <<>>
TopLevelCall(c) == ~calls[c].inRead /\ ~calls[c].inWrite

\* C1: once a callback has raised inside read or write and no callback is
\* executing any more, reading and writing are both false, and a read or
\* write called outside any callback returns a promise, never null.
C1_FlagsClearedAfterRaise ==
    /\ (NoCallbackRunning /\ (\E c \in DOMAIN calls : calls[c].raised))
          => (~reading /\ ~writing)
    /\ \A c \in DOMAIN calls : TopLevelCall(c) => calls[c].ret # "null"

\* C2: a write whose callback raised has returned a promise (nothing was
\* raised to its caller), and that promise is pending or rejected with the
\* scheduler instance.
C2_WriteCallbackErrorRejects ==
    \A c \in DOMAIN calls :
        (calls[c].kind = "write" /\ calls[c].raised)
            => /\ calls[c].ret = "promise"
               /\ calls[c].fut \in {"pending", "rejected"}
               /\ (calls[c].fut = "rejected" => calls[c].val = "instance")

\* C5: a read called while a read callback is executing returns null, makes
\* no promise, registers no frame callback, and its callback is never invoked.
C5_NestedReadRefused ==
    \A c \in DOMAIN calls :
        (calls[c].kind = "read" /\ calls[c].inRead)
            => /\ calls[c].ret = "null"
               /\ calls[c].fut = "none"
               /\ calls[c].invoked = 0
               /\ ~Registered(c)

\* A nested read was refused, and every frame callback registered has since run.
C5_Witness ==
    /\ \E c \in DOMAIN calls :
          calls[c].kind = "read" /\ calls[c].inRead /\ calls[c].ret = "null"
    /\ stack = <<>>
    /\ frames = <<>>

\* C9: a read whose callback raised has a promise rejected with the scheduler
\* instance; the callback was invoked once and is registered for no later tick.
C9_ReadCallbackErrorRejects ==
    \A c \in DOMAIN calls :
        (calls[c].kind = "read" /\ calls[c].raised)
            => /\ calls[c].fut = "rejected"
               /\ calls[c].val = "instance"
               /\ calls[c].invoked = 1
               /\ ~Registered(c)

\* A read callback raised, and a flush registered after it has run since.
C9_Witness ==
    \E c, d \in DOMAIN calls :
        /\ calls[c].kind = "read" /\ calls[c].raised
        /\ d > c /\ calls[d].kind = "write" /\ calls[d].fut \in {"resolved", "rejected"}

\* C10: reading and writing are never both true.
C10_FlagsExclusive == ~(reading /\ writing)

-----------------------------------------------------------------------------
(* Properties of the mutation queue, checked under SpecQueue and SpecMaps.  *)

Flushed == last.op = "flush" /\ last.ok

\* The place of each kind of mutation in the order the flush is described with.
Rank(kind) ==
    CASE kind = "addClass" -> 1
      [] kind = "removeClass" -> 2
      [] kind = "attributes" -> 3
      [] kind = "properties" -> 4
      [] kind = "styles" -> 5

\* C3: a flush calls the element's mutators in the order add-class,
\* remove-class, attributes, properties, styles.
C3_FlushOrder ==
    Flushed => \A i, j \in DOMAIN last.log : i < j => Rank(last.log[i]) < Rank(last.log[j])

\* C4: after a flush that found an add-class and a remove-class pending for
\* the same class name, the element does not carry that class.
C4_RemoveWinsOverAdd ==
    (Flushed /\ last.queued.addClass # NONE /\ last.queued.addClass = last.queued.removeClass)
        => ~HasClassOf(target, last.queued.addClass)

\* C6: after a flush, each key set since the flush before it has on the element
\* the value of the last call that set it: as given for properties and styles,
\* converted to a string for attributes.
C6_LastWriteWins ==
    Flushed =>
        /\ \A k \in DOMAIN last.written.attributes :
              /\ k \in DOMAIN target.attributes
              /\ target.attributes[k] = String(last.written.attributes[k])
        /\ \A k \in DOMAIN last.written.properties :
              /\ k \in DOMAIN target.properties
              /\ target.properties[k] = last.written.properties[k]
        /\ \A k \in DOMAIN last.written.styles :
              /\ k \in DOMAIN target.style
              /\ target.style[k] = last.written.styles[k]

\* A flush after every map had a key set twice with different values.
C6_Witness ==
    /\ Flushed
    /\ \A map \in {"attributes", "properties", "styles"} :
          \E k \in DOMAIN last.written[map] : <<map, k>> \in last.written.over

QueueIsEmpty(q) ==
    /\ q.addClass = NONE
    /\ q.removeClass = NONE
    /\ DOMAIN q.attributes = {}
    /\ DOMAIN q.properties = {}
    /\ DOMAIN q.styles = {}
    /\ Range(q.order) = {"attributes", "properties", "styles"}

\* C7: the queue is empty after construction and right after every flush that
\* did not raise.
C7_QueueEmptyAfterFlush ==
    (last.op = "constructor" \/ Flushed) => QueueIsEmpty(queue)

\* A flush that found every kind of mutation pending.
C7_Witness ==
    /\ Flushed
    /\ last.queued.addClass # NONE
    /\ last.queued.removeClass # NONE
    /\ DOMAIN last.queued.attributes # {}
    /\ DOMAIN last.queued.properties # {}
    /\ DOMAIN last.queued.styles # {}
    /\ QueueIsEmpty(queue)

\* C8 as stated: the element changes only in a flush.
C8_OnlyFlushChangesTarget ==
    [][target' # target => last'.op = "flush"]_vars

\* C8 amended: the element changes only in a flush or when the transition-end
\* listener of conceal runs; and hasClass(x) is false right after addClass(x)
\* on an element that did not carry x.
C8_SettersDeferred ==
    [][/\ target' # target => last'.op \in {"flush", "transitionEnd"}
       /\ \A x \in Classes :
             (AddClass(x) /\ ~HasClassOf(target, x)) => ~HasClassOf(target', x)]_vars

\* Every kind of mutation is pending and the element has none of them.
C8_Witness ==
    /\ last.op = "other"
    /\ queue.addClass = "show"
    /\ queue.removeClass = "hide"
    /\ DOMAIN queue.attributes # {}
    /\ DOMAIN queue.properties # {}
    /\ DOMAIN queue.styles # {}
    /\ ~HasClassOf(target, "show")
    /\ target = EmptyTarget

-----------------------------------------------------------------------------
(* Properties of conceal, reveal and the aria setters, checked under        *)
(* SpecAria.                                                                *)

\* What conceal() is said to leave pending; setAttribute queued String(true).
ConcealQueued(q) ==
    /\ q.removeClass = "show"
    /\ q.addClass = "hide"
    /\ "aria-hidden" \in DOMAIN q.attributes
    /\ q.attributes["aria-hidden"] = JsStr("true")

\* C11 as stated: every conceal(flag) on an element leaves remove-class
\* "show", add-class "hide" and aria-hidden "true" pending.
C11_ConcealAlwaysQueues ==
    [][\A b \in BOOLEAN : (element # NULL /\ Conceal(b)) => ConcealQueued(queue')]_vars

\* C11 amended: every conceal(flag) on an element leaves remove-class "show"
\* and add-class "hide" pending; with Toolkit.aria true it leaves aria-hidden
\* "true" pending as well, with Toolkit.aria false it leaves the pending
\* attributes as they were.
C11_ConcealQueues ==
    [][\A b \in BOOLEAN :
          (element # NULL /\ Conceal(b))
              => /\ queue'.removeClass = "show"
                 /\ queue'.addClass = "hide"
                 /\ aria => ConcealQueued(queue')
                 /\ ~aria => queue'.attributes = queue.attributes]_vars

\* conceal() has run on an element carrying "show" (its listener is waiting),
\* over a pending add-class or remove-class of the other name, and the queue
\* holds what it queued.
C11_Witness ==
    /\ aria
    /\ hooks > 0
    /\ HasClassOf(target, "show")
    /\ written.over \cap {<<"classes", "addClass">>, <<"classes", "removeClass">>} # {}
    /\ ConcealQueued(queue)

\* What reveal(false) is said to leave pending; setAttribute queued
\* String(false).
RevealQueued(q) ==
    /\ "display" \in DOMAIN q.styles
    /\ q.styles["display"] = JsStr("")
    /\ q.removeClass = "hide"
    /\ q.addClass = "show"
    /\ "aria-hidden" \in DOMAIN q.attributes
    /\ q.attributes["aria-hidden"] = JsStr("false")

\* The calls of reveal(false) are the last ones made, since the flush before,
\* for the display style, the two class slots and aria-hidden.
RevealWritten(w) ==
    /\ "display" \in DOMAIN w.styles
    /\ w.styles["display"] = JsStr("")
    /\ DOMAIN w.classes = {"addClass", "removeClass"}
    /\ w.classes["removeClass"] = "hide"
    /\ w.classes["addClass"] = "show"
    /\ IF "aria-hidden" \in DOMAIN w.attributes
       THEN w.attributes["aria-hidden"] = JsBool(FALSE)
       ELSE "hidden" \in w.ignored

Revealed(t) ==
    /\ t.classes = {"show"}
    /\ "display" \in DOMAIN t.style
    /\ t.style["display"] = JsStr("")
    /\ "aria-hidden" \in DOMAIN t.attributes
    /\ t.attributes["aria-hidden"] = JsStr("false")

\* The flush that follows reveal(false), on an element with no class but
\* possibly "hide".
FlushOfReveal ==
    /\ TickFlush
    /\ element # NULL
    /\ RevealWritten(written)
    /\ target.classes \subseteq {"hide"}

C13_AriaDisabledNoOp ==
    [][~aria =>
          /\ \A k \in AriaKeys :
                SetAria(k, JsBool(TRUE)) => (queue' = queue /\ target' = target)
          /\ \A m \in MapsOver(AriaKeys, {JsBool(TRUE)}) :
                SetArias(m) => (queue' = queue /\ target' = target)]_vars

\* With Toolkit.aria false, setAria or setArias has been given "hidden" and
\* "toggled" since construction or the last flush, and nothing is pending.
C13_Witness ==
    /\ ~aria
    /\ written.ignored = AriaKeys
    /\ QueueIsEmpty(queue)
    /\ target.attributes = EmptyMap

-----------------------------------------------------------------------------
(* The class slots, checked under SpecClasses. *)

\* The argument of the last addClass / removeClass call since the flush
\* before, if there was one.
LastClass(w, slot) == IF slot \in DOMAIN w.classes THEN {w.classes[slot]} ELSE {}

\* C14: the queue holds one add-class and one remove-class; addClass(b) leaves
\* b pending whatever was pending, removeClass(b) likewise, neither touches
\* the other slot; and a flush adds no class but the one last given to
\* addClass and removes none but the one last given to removeClass.
C14_OneClassPerSlot ==
    [][/\ \A b \in Classes :
             AddClass(b) => (queue'.addClass = b /\ queue'.removeClass = queue.removeClass)
       /\ \A b \in Classes :
             RemoveClass(b) => (queue'.removeClass = b /\ queue'.addClass = queue.addClass)
       /\ (TickFlush /\ element # NULL)
             => /\ (target'.classes \ target.classes) \subseteq LastClass(written, "addClass")
                /\ (target.classes \ target'.classes) \subseteq LastClass(written, "removeClass")]_vars

\* A flush after addClass("show") was replaced by addClass("hide") and
\* removeClass("hide") by removeClass("show"): the element carries "hide"
\* alone.
C14_Witness ==
    /\ Flushed
    /\ {<<"classes", "addClass">>, <<"classes", "removeClass">>} \subseteq last.written.over
    /\ last.written.classes["addClass"] = "hide"
    /\ last.written.classes["removeClass"] = "show"
    /\ target.classes = {"hide"}

-----------------------------------------------------------------------------
(* Properties of write(), of the chain read(r).write(w) and of the frame    *)
(* callbacks, checked under Spec.                                           *)

\* The frame callbacks registered for call c and still to run.
Registrations(c) == {i \in DOMAIN frames : frames[i].call = c}

\* C15: a write called while a write callback is executing returns null, its
\* callback is not entered and it registers no flush; the write whose callback
\* made that call, once the callback has returned, has registered exactly one
\* flush.
C15_NestedWriteRefused ==
    \A c \in DOMAIN calls :
        (calls[c].kind = "write" /\ calls[c].inWrite)
            => /\ calls[c].ret = "null"
               /\ calls[c].fut = "none"
               /\ calls[c].invoked = 0
               /\ calls[c].reg = 0
               /\ Registrations(c) = {}
               /\ LET outer == calls[c].within
                  IN  (calls[outer].ret # "running" /\ ~calls[outer].raised)
                          => /\ calls[outer].kind = "write"
                             /\ calls[outer].ret = "promise"
                             /\ calls[outer].reg > 0
                             /\ Cardinality(Registrations(outer)) = IF calls[outer].ran = 0 THEN 1 ELSE 0

\* A write callback called write, was refused, and returned: the outer write
\* has its one flush registered and waiting.
C15_Witness ==
    \E c \in DOMAIN calls :
        /\ calls[c].kind = "write"
        /\ calls[c].inWrite
        /\ calls[c].ret = "null"
        /\ calls[calls[c].within].kind = "write"
        /\ calls[calls[c].within].ret = "promise"
        /\ Cardinality(Registrations(calls[c].within)) = 1

\* C16: every write that was not refused, once its callback (if any) is over,
\* has registered exactly one flush; the callback was entered before write
\* returned, and a flush registered has not run: its promise is pending.
C16_WriteDefersFlush ==
    \A c \in DOMAIN calls :
        calls[c].kind = "write"
            => /\ calls[c].ret \notin {"null", "running"}
                     => /\ calls[c].reg > 0
                        /\ Cardinality(Registrations(c)) = IF calls[c].ran = 0 THEN 1 ELSE 0
               /\ calls[c].ret = "running" => (calls[c].invoked = 1 /\ calls[c].reg = 0)
               /\ Registrations(c) # {} => (calls[c].fut = "pending" /\ calls[c].ran = 0)

\* C17: in read(r).write(w), the write of w is made only once r has been run
\* and has returned and the promise of the read has resolved, so the flush of
\* w is registered after, and runs in a later frame callback than, the one
\* that ran r; when r raised, the write is never made: w is not entered and
\* no flush is registered.
C17_ChainedWriteAfterRead ==
    /\ \A d \in DOMAIN calls :
          (calls[d].kind = "write" /\ calls[d].chainOf # 0)
              => LET c == calls[d].chainOf
                 IN  /\ calls[c].kind = "read"
                     /\ calls[c].invoked = 1
                     /\ calls[c].ran > 0
                     /\ \A i \in DOMAIN stack : stack[i].call # c
                     /\ calls[c].fut = "resolved"
                     /\ ~calls[c].raised
                     /\ calls[d].reg > 0 => calls[d].reg > calls[c].reg
                     /\ calls[d].ran > 0 => calls[d].ran > calls[c].ran
    /\ \A c \in DOMAIN calls :
          (calls[c].kind = "read" /\ calls[c].then # "none" /\ calls[c].raised)
              => /\ calls[c].then = "write"
                 /\ \A d \in DOMAIN calls : calls[d].chainOf # c

\* read(r).write(w) has run to its end: r, then w, then the flush of w.
C17_Witness ==
    \E d \in DOMAIN calls :
        /\ calls[d].kind = "write"
        /\ calls[d].chainOf # 0
        /\ calls[d].invoked = 1
        /\ calls[d].ran > calls[calls[d].chainOf].ran
        /\ calls[d].fut = "resolved"

\* C18: a flush on a scheduler with no element changes neither the element
\* state nor the queue, rejects the promise of its write with the instance,
\* and leaves the reading and writing flags alone: a read or a write made
\* right after it is accepted as it would have been before.
C18_FlushWithoutTarget ==
    [][/\ (TickFlush /\ element = NULL)
             => /\ target' = target
                /\ queue' = queue
                /\ calls'[Head(frames).call].fut = "rejected"
                /\ calls'[Head(frames).call].val = "instance"
                /\ reading' = reading
                /\ writing' = writing
       /\ (last.op = "flush" /\ ~last.ok /\ ~writing /\ \E f \in BOOLEAN : Write(f))
             => calls'[Len(calls')].ret # "null"
       /\ (last.op = "flush" /\ ~last.ok /\ ~reading /\ Read)
             => calls'[Len(calls')].ret = "promise"]_vars

\* A flush has raised for want of an element: its promise is rejected with
\* the instance and the class it found pending is pending still.
C18_Witness ==
    /\ last.op = "flush"
    /\ ~last.ok
    /\ element = NULL
    /\ calls[last.call].fut = "rejected"
    /\ calls[last.call].val = "instance"
    /\ queue.addClass # NONE
    /\ queue.removeClass # NONE

-----------------------------------------------------------------------------
(* Progress.  The host runs every frame callback registered and every       *)
(* microtask due, and a callback that was entered comes to an end.          *)

\* read, write and the chain, with nothing queued: the flushes are empty.
NextLive ==
    \/ Read
    \/ \E hasFunc \in BOOLEAN : Write(hasFunc)
    \/ ChainWrite
    \/ ChainRead
    \/ RunThen
    \/ TickRead
    \/ TickFlush
    \/ Return
    \/ Throw

SpecLive ==
    /\ Init
    /\ [][NextLive]_vars
    /\ WF_vars(TickRead)
    /\ WF_vars(TickFlush)
    /\ WF_vars(RunThen)
    /\ WF_vars(Return \/ Throw)

\* The promise of call c and the frame callback that ran for it, for a call
\* that may not have been made yet.
FutOf(c) == IF c \in DOMAIN calls THEN calls[c].fut ELSE "none"
RanOf(c) == IF c \in DOMAIN calls THEN calls[c].ran ELSE 0

\* C19: every promise returned by read or write is settled in the end, and
\* every frame callback registered is run.
C19_EveryFutureSettles ==
    \A c \in 1..MaxCalls :
        /\ (FutOf(c) = "pending") ~> (FutOf(c) \in {"resolved", "rejected"})
        /\ (Registrations(c) # {}) ~> (Registrations(c) = {} /\ RanOf(c) > 0)

\* Nothing is left to run, and the promises returned were settled both ways.
C19_Witness ==
    /\ frames = <<>>
    /\ stack = <<>>
    /\ Len(calls) = MaxCalls
    /\ \A c \in DOMAIN calls : calls[c].ret = "promise" /\ calls[c].fut # "pending"
    /\ \E c \in DOMAIN calls : calls[c].fut = "resolved"
    /\ \E c \in DOMAIN calls : calls[c].fut = "rejected"

\* C20: every read that was accepted has a frame callback of its own, which
\* enters its callback once; the frame callbacks of reads and writes run in
\* the order they were registered; so while the callback of a read is
\* executing, no flush registered after that read has run.
C20_NoCoalescing ==
    /\ \A c \in DOMAIN calls :
          (calls[c].kind = "read" /\ calls[c].ret = "promise")
              => /\ calls[c].reg > 0
                 /\ Cardinality(Registrations(c)) = IF calls[c].ran = 0 THEN 1 ELSE 0
                 /\ calls[c].invoked = IF calls[c].ran = 0 THEN 0 ELSE 1
    /\ \A c, d \in DOMAIN calls :
          (calls[c].reg > 0 /\ calls[d].reg > 0)
              => /\ calls[c].reg = calls[d].reg => c = d
                 /\ (calls[c].reg < calls[d].reg /\ calls[d].ran > 0)
                       => (calls[c].ran > 0 /\ calls[c].ran < calls[d].ran)
    /\ \A i \in DOMAIN stack :
          stack[i].kind = "read"
              => \A d \in DOMAIN calls :
                    (calls[d].kind = "write" /\ calls[d].reg > calls[stack[i].call].reg)
                        => calls[d].ran = 0

\* The callback of a read is executing; a second read and a write, both made
\* outside any callback and so before this frame callback began, wait in that
\* order, and the class queued is not on the element.
C20_Witness ==
    /\ Len(stack) = 1
    /\ stack[1].kind = "read"
    /\ Len(frames) = 2
    /\ frames[1].kind = "read"
    /\ frames[2].kind = "flush"
    /\ calls[frames[1].call].within = 0
    /\ calls[frames[2].call].within = 0
    /\ queue.addClass # NONE
    /\ target = EmptyTarget

\* No flush ran after the frame callback of call c and before that of call d.
NoFlushBetween(c, d) ==
    \A e \in DOMAIN calls :
        (calls[e].kind = "write" /\ calls[e].ran > calls[c].ran) => calls[e].ran > calls[d].ran

\* C21: in write(w).read(r), the read of r is made only once the flush of the
\* write has been applied and the promise of the write has resolved, so r is
\* registered after, and entered in a later frame callback than, that flush,
\* and finds the element as that flush left it unless another flush ran in
\* between; when the flush raised, the read is never made: r is not entered.
C21_ChainedReadAfterFlush ==
    /\ \A d \in DOMAIN calls :
          (calls[d].kind = "read" /\ calls[d].chainOf # 0)
              => LET c == calls[d].chainOf
                 IN  /\ calls[c].kind = "write"
                     /\ calls[c].ran > 0
                     /\ calls[c].fut = "resolved"
                     /\ calls[d].reg > 0 => calls[d].reg > calls[c].reg
                     /\ calls[d].invoked > 0
                           => /\ calls[d].ran > calls[c].ran
                              /\ NoFlushBetween(c, d) => calls[d].seen = calls[d].flushed
    /\ \A c \in DOMAIN calls :
          (calls[c].kind = "write" /\ calls[c].then # "none" /\ calls[c].fut = "rejected")
              => /\ calls[c].then = "read"
                 /\ \A d \in DOMAIN calls : calls[d].chainOf # c

\* write(w).read(r) has run to its end: w queued a class, the flush added it,
\* and r was entered on the element carrying it.
C21_Witness ==
    \E d \in DOMAIN calls :
        /\ calls[d].kind = "read"
        /\ calls[d].chainOf # 0
        /\ calls[calls[d].chainOf].invoked = 1
        /\ calls[d].invoked = 1
        /\ calls[d].fut = "resolved"
        /\ calls[d].seen = calls[d].flushed
        /\ calls[d].seen.classes = {"show"}

\* C22: a flush on an element applies the queue as it is when the frame
\* callback runs: the class then pending for addClass is on the element
\* afterwards and the one pending for removeClass is not (when they differ),
\* whenever they were queued; the queue is empty afterwards; and a flush that
\* finds the queue empty leaves the element as it was.
C22_FlushAppliesQueueAtTick ==
    [][(TickFlush /\ element # NULL)
          => /\ (queue.addClass # NONE /\ queue.addClass # queue.removeClass)
                   => HasClassOf(target', queue.addClass)
             /\ (queue.removeClass # NONE /\ queue.addClass # queue.removeClass)
                   => ~HasClassOf(target', queue.removeClass)
             /\ queue' = ResetQueue
             /\ queue = ResetQueue => target' = target]_vars

\* A flush has just added a class that was queued after its write returned:
\* the callback of the read run just before it found that flush waiting next
\* and nothing queued.
C22_Witness ==
    /\ Flushed
    /\ last.queued.addClass = "show"
    /\ last.queued.removeClass = NONE
    /\ HasClassOf(target, "show")
    /\ \E d \in DOMAIN calls :
          /\ calls[d].kind = "read"
          /\ calls[d].entry
          /\ calls[last.call].ran = calls[d].ran + 1

-----------------------------------------------------------------------------
(* conceal's transition-end listener against reveal, checked under SpecAria. *)

DisplayCleared(t) == "display" \in DOMAIN t.style /\ t.style["display"] = JsStr("")

\* C23: conceal(flag) on an element registers the listener exactly when the
\* element carries "show" and the flag is false; and once the flush of a
\* reveal(false) has cleared the display, with no call made since that reveal,
\* the next step leaves the display cleared.
C23_DisplayStaysCleared ==
    [][/\ \A b \in BOOLEAN :
             (element # NULL /\ Conceal(b))
                 => (hooks' = IF HasClassOf(target, "show") /\ ~b
                              THEN TransitionEndRegister(hooks) ELSE hooks)
       /\ (Flushed /\ RevealWritten(last.written) /\ DisplayCleared(target))
             => DisplayCleared(target')]_vars

====
